---- MODULE Spec2Model ----
(***************************************************************************)
(* Top-to-bottom execution of the two course notebooks: the exploration    *)
(* notebook (020_ExploreNeMo) and the named-entity-recognition notebook    *)
(* (4.0 Build a Named Entity Recognizer).  One action per code cell.  The  *)
(* namespace ns is the kernel's global namespace; objs is the heap of      *)
(* neural-module instances; the remaining variables hold the inference     *)
(* data.  Strings that the code splits and concatenates are sequences of   *)
(* one-character strings.                                                  *)
(*                                                                         *)
(* The exercise cells of the NER notebook ship as `name = None #FIXME`.    *)
(* filled = FALSE runs them as shipped; filled = TRUE runs them completed  *)
(* the way the comments of the same cell instruct.                         *)
(***************************************************************************)
EXTENDS Integers, Sequences, FiniteSets, TLC

VARIABLES notebook, filled, MODEL_TYPE, pc, status, err,
          ns, objs,
          df_test, queries, test_tokens, infer_out,
          logits, subtokens_mask, preds, printed

ctl  == <<notebook, filled, MODEL_TYPE, pc, status, err>>
heap == <<ns, objs>>
inf  == <<df_test, queries, test_tokens, infer_out,
          logits, subtokens_mask, preds, printed>>
vars == <<notebook, filled, MODEL_TYPE, pc, status, err, ns, objs,
          df_test, queries, test_tokens, infer_out,
          logits, subtokens_mask, preds, printed>>

(***************************************************************************)
(* Bounds of the model.                                                    *)
(***************************************************************************)
\* most rows the test file holds
MaxRows == 2
\* rows drawn by df_test.sample(n); the notebook draws 10
SampleSize == 1
\* max_seq_length handed to the data layers; the notebook sets 128
MAX_SEQ_LEN == 3
\* most executions of the training cell in one session
MaxTrainRuns == 2

(***************************************************************************)
(* Program constants.                                                      *)
(***************************************************************************)
NUM_CLASSES == 3
BATCH_SIZE == 16
NUM_EPOCHS == 4
NONE_LABEL == <<"O">>
ModelTypes == {"biobert", "biomegatron"}

PRETRAINED_MODEL_NAME ==
  [biobert |-> "bert-base-cased", biomegatron |-> "megatron-bert-uncased"]
\* DO_LOWER_CASE with the flag left False for both model types
DO_LOWER_CASE_NeverLower == [biobert |-> FALSE, biomegatron |-> FALSE]

DO_LOWER_CASE == [biobert |-> FALSE, biomegatron |-> TRUE]
WORK_DIR ==
  [biobert |-> "/dli/task/data/logs-ner-biobert/",
   biomegatron |-> "/dli/task/data/logs-ner-biomegatron"]
NGC_CHECKPOINT ==
  [biobert |-> "/ngc_checkpoints/checkpoints/biobert/BERT.pt",
   biomegatron |-> "/ngc_checkpoints/checkpoints/biomegatron/MegatronBERT.pt"]
\* NGC_CONFIG without its biomegatron entry
NGC_CONFIG_BiobertOnly ==
  [biobert |-> "/ngc_checkpoints/checkpoints/biobert/bert_config.json"]

NGC_CONFIG ==
  [biobert |-> "/ngc_checkpoints/checkpoints/biobert/bert_config.json",
   biomegatron |-> "/ngc_checkpoints/checkpoints/biomegatron/config.json"]

\* label_ids.csv as get_vocab loads it: line number -> label string
LabelIds == (0 :> <<"O">>) @@ (1 :> <<"B">>) @@ (2 :> <<"I">>)

(***************************************************************************)
(* Values of the namespace.                                                *)
(***************************************************************************)
None == [kind |-> "None"]
Lib == [kind |-> "lib"]
Const == [kind |-> "const"]
Data == [kind |-> "data"]
Obj(id) == [kind |-> "obj", id |-> id]
IsNone(v) == v.kind = "None"

\* an output port of a data layer, and the output of a module called on inputs
PortT(id, port) == [kind |-> "tensor", module |-> id, port |-> port, in |-> {}]
CallT(id, port, args) == [kind |-> "tensor", module |-> id, port |-> port, in |-> args]

IntVal(v) == [kind |-> "int", val |-> v]

NoErr == [cell |-> "none", kind |-> "none"]

(***************************************************************************)
(* Python string operations on sequences of characters.                    *)
(***************************************************************************)
IsSpace(c) == c = " "

RECURSIVE LStrip(_)
LStrip(s) ==
  IF s # <<>> /\ IsSpace(Head(s)) THEN LStrip(Tail(s)) ELSE s

RECURSIVE RStrip(_)
RStrip(s) ==
  IF s # <<>> /\ IsSpace(s[Len(s)]) THEN RStrip(SubSeq(s, 1, Len(s) - 1)) ELSE s

strip(s) == RStrip(LStrip(s))

RECURSIVE SplitAcc(_, _, _)
SplitAcc(s, cur, acc) ==
  IF s = <<>>
    THEN IF cur = <<>> THEN acc ELSE Append(acc, cur)
    ELSE IF IsSpace(Head(s))
      THEN SplitAcc(Tail(s), <<>>, IF cur = <<>> THEN acc ELSE Append(acc, cur))
      ELSE SplitAcc(Tail(s), Append(cur, Head(s)), acc)

\* str.split() with no argument: runs of whitespace separate, no empty words
split(s) == SplitAcc(s, <<>>, <<>>)

add_brackets(text, add) == IF add THEN <<"[">> \o text \o <<"]">> ELSE text

(***************************************************************************)
(* The code cells of each notebook, in notebook order.                     *)
(***************************************************************************)
\* NerCells with the training cell moved below the inference cells
NerCellsTrainLast ==
  << "imports", "ls", "tree", "params", "dicts", "factory", "sig",
     "tok_dl_train", "dl_val", "lm", "classifier", "loss",
     "train_graph", "val_graph", "lr", "callbacks",
     "read_test", "sample", "dl_test", "test_graph", "infer",
     "gather", "postprocess", "train" >>

NerCells ==
  << "imports", "ls", "tree", "params", "dicts", "factory", "sig",
     "tok_dl_train", "dl_val", "lm", "classifier", "loss",
     "train_graph", "val_graph", "lr", "callbacks", "train",
     "read_test", "sample", "dl_test", "test_graph", "infer",
     "gather", "postprocess" >>

ExploreCells ==
  << "x_imports", "x_factory", "x_list_dl", "x_sig_tc", "x_sig_tok",
     "x_list_tok", "x_tokenizer", "x_show_tokens", "x_dl", "x_list_tr",
     "x_list_lm", "x_lm", "x_sig_sc", "x_sig_tk", "x_cl", "x_list_loss",
     "x_sig_loss", "x_lf", "x_data", "x_embeddings", "x_logits_loss",
     "x_sig_train", "x_sig_infer", "x_sig_logger", "x_sig_tb",
     "x_sig_eval", "x_sig_ckpt" >>

CellsOf(nb) == IF nb = "ner" THEN NerCells ELSE ExploreCells
Cells == CellsOf(notebook)
CurCell == IF pc \in 1..Len(Cells) THEN Cells[pc] ELSE "end"

\* cells that only display something: shell listings, dir() and signatures
DisplayCells ==
  { "ls", "tree", "sig", "x_list_dl", "x_sig_tc", "x_sig_tok", "x_list_tok",
    "x_list_tr", "x_list_lm", "x_sig_sc", "x_sig_tk", "x_list_loss",
    "x_sig_loss", "x_sig_train", "x_sig_infer", "x_sig_logger", "x_sig_tb",
    "x_sig_eval", "x_sig_ckpt" }

NerImports ==
  { "os", "torch", "pd", "np", "time", "errno", "inspect", "termcolor",
    "nemo", "nemo_nlp", "BertTokenClassificationDataLayer",
    "BertTokenClassificationInferDataLayer", "get_pretrained_lm_model",
    "TokenClassifier", "CrossEntropyLossNM", "get_lr_policy",
    "get_tokenizer", "get_vocab", "SimpleLogger", "TensorboardLogger",
    "EvaluatorCallback", "CheckpointCallback", "eval_epochs_done_callback",
    "eval_iter_callback", "logging" }

ExploreImports == { "nemo", "nemo_nlp", "inspect" }

\* the global names a cell reads before it assigns them, as the cell ships
ShippedReads(c) ==
  CASE c = "dicts" -> {"CHECKPOINTS_PATH"}
    [] c = "factory" -> {"nemo", "WORK_DIR", "MODEL_TYPE"}
    [] c = "sig" -> {"inspect", "BertTokenClassificationDataLayer"}
    [] c = "tok_dl_train" ->
         {"get_tokenizer", "PRETRAINED_MODEL_NAME", "MODEL_TYPE",
          "DO_LOWER_CASE", "BertTokenClassificationDataLayer", "os",
          "DATA_DIR", "MAX_SEQ_LEN", "BATCH_SIZE"}
    [] c = "lm" -> {"PRETRAINED_MODEL_NAME", "MODEL_TYPE"}
    [] c = "classifier" -> {"lm"}
    [] c = "train_graph" -> {"dl_train", "lm", "classifier", "loss"}
    [] c = "lr" -> {"dl_train", "BATCH_SIZE", "logging", "get_lr_policy"}
    [] c = "callbacks" ->
         {"EvaluatorCallback", "val_logits", "val_data", "nf",
          "steps_per_epoch"}
    [] c = "train" ->
         {"nemo", "nf", "train_loss", "train_callback",
          "tensorboard_callback", "eval_callback", "ckpt_callback",
          "lr_policy_fn", "OPTIMIZER", "NUM_EPOCHS", "LEARNING_RATE",
          "WEIGHT_DECAY"}
    [] c = "read_test" -> {"pd", "DATA_DIR"}
    [] c = "sample" -> {"df_test"}
    [] c = "dl_test" ->
         {"BertTokenClassificationInferDataLayer", "tokenizer", "queries",
          "MAX_SEQ_LEN"}
    [] c = "test_graph" -> {"dl_test", "lm", "classifier"}
    [] c = "infer" -> {"nf", "test_logits", "test_data"}
    [] c = "gather" -> {"np", "test_logits_tensors"}
    [] c = "postprocess" ->
         {"termcolor", "DATA_DIR", "get_vocab", "queries", "preds",
          "subtokens_mask", "NONE_LABEL", "add_brackets"}
    [] c = "x_factory" -> {"nemo"}
    [] c \in {"x_list_dl", "x_list_tok", "x_list_tr", "x_list_lm"} -> {"nemo_nlp"}
    [] c \in {"x_sig_tc", "x_sig_tok", "x_sig_sc", "x_sig_tk"} ->
         {"inspect", "nemo_nlp"}
    [] c = "x_tokenizer" -> {"nemo"}
    [] c = "x_show_tokens" -> {"tokenizer"}
    [] c = "x_dl" -> {"nemo_nlp", "tokenizer"}
    [] c = "x_lm" -> {"nemo_nlp"}
    [] c = "x_cl" -> {"nemo_nlp", "lm"}
    [] c = "x_list_loss" -> {"nemo"}
    [] c \in {"x_sig_loss", "x_sig_train", "x_sig_infer", "x_sig_logger",
              "x_sig_tb", "x_sig_eval", "x_sig_ckpt"} -> {"inspect", "nemo"}
    [] c = "x_lf" -> {"nemo"}
    [] c = "x_data" -> {"dl"}
    [] c = "x_embeddings" ->
         {"lm", "input_data", "token_types", "attn_mask"}
    [] c = "x_logits_loss" -> {"cl", "embeddings", "lf", "labels"}
    [] OTHER -> {}

\* the further names an exercise cell reads once its #FIXME lines are completed
ExerciseReads(c) ==
  CASE c = "dl_val" ->
         {"BertTokenClassificationDataLayer", "os", "DATA_DIR", "tokenizer",
          "MAX_SEQ_LEN", "BATCH_SIZE", "USE_CACHE"}
    [] c = "lm" -> {"get_pretrained_lm_model", "NGC_CONFIG", "NGC_CHECKPOINT"}
    [] c = "classifier" -> {"TokenClassifier", "NUM_CLASSES"}
    [] c = "loss" -> {"CrossEntropyLossNM"}
    [] c = "val_graph" -> {"dl_val", "lm", "classifier", "loss"}
    [] c = "callbacks" ->
         {"SimpleLogger", "TensorboardLogger", "CheckpointCallback"}
    [] OTHER -> {}

Reads(c) == ShippedReads(c) \cup (IF filled THEN ExerciseReads(c) ELSE {})

(***************************************************************************)
(* Control: a cell either runs to its end and the run moves to the next    *)
(* cell, or it raises and the run stops there.  No cell has a try block.   *)
(***************************************************************************)
Bind(names, v) == [n \in names |-> v]

\* Running that does not look at whether the run has stopped
RunningAfterError(c) == CurCell = c

Running(c) == status = "running" /\ CurCell = c

\* the cell raises: what it assigned before the raise stays assigned
Stop(kind, ns2, objs2) ==
  /\ status' = "error"
  /\ err' = [cell |-> CurCell, kind |-> kind]
  /\ ns' = ns2
  /\ objs' = objs2
  /\ UNCHANGED <<notebook, filled, MODEL_TYPE, pc>>

\* the cell ran to its end
Go(ns2, objs2) ==
  /\ pc' = pc + 1
  /\ status' = IF pc = Len(Cells) THEN "done" ELSE "running"
  /\ ns' = ns2
  /\ objs' = objs2
  /\ UNCHANGED <<notebook, filled, MODEL_TYPE, err>>

\* a call into the framework or the file system raises
FrameworkError == "FrameworkError"

Init ==
  /\ notebook \in {"ner", "explore"}
  /\ filled \in (IF notebook = "ner" THEN BOOLEAN ELSE {TRUE})
  /\ MODEL_TYPE \in (IF notebook = "ner" THEN ModelTypes ELSE {"unset"})
  /\ pc = 1
  /\ status = "running"
  /\ err = NoErr
  /\ ns = <<>>
  /\ objs = <<>>
  /\ df_test = <<>>
  /\ queries = <<>>
  /\ test_tokens = <<>>
  /\ infer_out = [logits |-> <<>>, mask |-> <<>>]
  /\ logits = <<>>
  /\ subtokens_mask = <<>>
  /\ preds = <<>>
  /\ printed = <<>>

(***************************************************************************)
(* Neural modules and graphs.                                              *)
(***************************************************************************)
NewId == Len(objs) + 1
ReadsDefined == Reads(CurCell) \subseteq DOMAIN ns

RECURSIVE ModulesOf(_)
\* the module instances a tensor is computed by
ModulesOf(t) == {t.module} \cup UNION {ModulesOf(a[2]) : a \in t.in}

\* lm(input_ids=..., token_type_ids=..., attention_mask=...)
Embeddings(lmId, ids, types, mask) ==
  CallT(lmId, "hidden_states",
        {<<"input_ids", ids>>, <<"token_type_ids", types>>,
         <<"attention_mask", mask>>})

\* classifier(hidden_states=...)
Logits(clsId, emb) == CallT(clsId, "logits", {<<"hidden_states", emb>>})

\* hidden size of the pretrained models the notebooks load
HiddenSizeOf(name) == IF name = "megatron-bert-uncased" THEN 1024 ELSE 768

\* TokenDataLayer that shuffles whatever it is asked
TokenDataLayerShuffled(textFile, labelFile, tokId, shuffle) ==
  [kind |-> "datalayer", cls |-> "BertTokenClassificationDataLayer",
   text_file |-> textFile, label_file |-> labelFile, tokenizer |-> tokId,
   max_seq_length |-> MAX_SEQ_LEN, shuffle |-> TRUE,
   batch_size |-> BATCH_SIZE, use_cache |-> TRUE]

TokenDataLayer(textFile, labelFile, tokId, shuffle) ==
  [kind |-> "datalayer", cls |-> "BertTokenClassificationDataLayer",
   text_file |-> textFile, label_file |-> labelFile, tokenizer |-> tokId,
   max_seq_length |-> MAX_SEQ_LEN, shuffle |-> shuffle,
   batch_size |-> BATCH_SIZE, use_cache |-> TRUE]

(***************************************************************************)
(* Cells shared by both notebooks, and the set-up cells of the NER one.    *)
(***************************************************************************)
Imports ==
  /\ status = "running"
  /\ CurCell \in {"imports", "x_imports"}
  /\ \/ Go(Bind(IF notebook = "ner" THEN NerImports ELSE ExploreImports, Lib) @@ ns, objs)
     \/ Stop("ImportError", ns, objs)
  /\ UNCHANGED inf

Display ==
  /\ status = "running"
  /\ CurCell \in DisplayCells
  /\ IF ReadsDefined THEN Go(ns, objs) ELSE Stop("NameError", ns, objs)
  /\ UNCHANGED inf

Params ==
  /\ Running("params")
  /\ Go(Bind({"DATA_DIR", "CHECKPOINTS_PATH", "MODEL_TYPE", "MAX_SEQ_LEN",
              "BATCH_SIZE", "NONE_LABEL", "NUM_CLASSES"}, Const) @@ ns, objs)
  /\ UNCHANGED inf

Dicts ==
  /\ Running("dicts")
  /\ IF ReadsDefined
       THEN Go(Bind({"PRETRAINED_MODEL_NAME", "DO_LOWER_CASE", "WORK_DIR",
                     "NGC_CHECKPOINT", "NGC_CONFIG"}, Const) @@ ns, objs)
       ELSE Stop("NameError", ns, objs)
  /\ UNCHANGED inf

Factory ==
  /\ status = "running"
  /\ CurCell \in {"factory", "x_factory"}
  /\ IF ~ReadsDefined THEN Stop("NameError", ns, objs)
     ELSE IF notebook = "ner" /\ MODEL_TYPE \notin DOMAIN WORK_DIR
       THEN Stop("KeyError", ns, objs)
     ELSE \/ Stop(FrameworkError, ns, objs)
          \/ Go(("nf" :> Obj(NewId)) @@ ns,
                Append(objs, [kind |-> "factory",
                              log_dir |-> IF notebook = "ner"
                                            THEN WORK_DIR[MODEL_TYPE]
                                            ELSE "default",
                              train_runs |-> 0, resets |-> 0,
                              trainer_step |-> 0, run_start |-> 0,
                              run_steps |-> 0]))
  /\ UNCHANGED inf

\* numbers of examples text_train.txt can hold: none, fewer than one batch,
\* and enough batches for a hundred training steps
TrainLens == {0, 15, 400}

TokDlTrain ==
  /\ Running("tok_dl_train")
  /\ LET ns1 == ("USE_CACHE" :> Const) @@ ns
         tok == [kind |-> "tokenizer", tokenizer_name |-> "nemobert",
                 pretrained_model_name |-> PRETRAINED_MODEL_NAME[MODEL_TYPE],
                 do_lower_case |-> DO_LOWER_CASE[MODEL_TYPE]]
         ns2 == ("tokenizer" :> Obj(NewId)) @@ ns1
         objs2 == Append(objs, tok)
     IN IF ~ReadsDefined THEN Stop("NameError", ns, objs)
        ELSE IF MODEL_TYPE \notin DOMAIN PRETRAINED_MODEL_NAME
                \/ MODEL_TYPE \notin DOMAIN DO_LOWER_CASE
          THEN Stop("KeyError", ns1, objs)
        ELSE \/ Stop(FrameworkError, ns1, objs)
             \/ Stop(FrameworkError, ns2, objs2)
             \/ \E n \in TrainLens :
                  Go(("dl_train" :> Obj(NewId + 1)) @@ ns2,
                     Append(objs2,
                            [len |-> n] @@
                            TokenDataLayer("text_train.txt", "labels_train.txt",
                                           NewId, TRUE)))
  /\ UNCHANGED inf

DlVal ==
  /\ Running("dl_val")
  /\ IF ~ReadsDefined THEN Stop("NameError", ns, objs)
     ELSE IF ~filled THEN Go(("dl_val" :> None) @@ ns, objs)
     ELSE \/ Stop(FrameworkError, ns, objs)
          \/ Go(("dl_val" :> Obj(NewId)) @@ ns,
                Append(objs, TokenDataLayer("text_dev.txt", "labels_dev.txt",
                                            ns["tokenizer"].id, FALSE)))
  /\ UNCHANGED inf

\* PretrainedLm keyed by 'biobert' whatever the model type
PretrainedLmBiobert(m) ==
  [kind |-> "lm",
   config |-> NGC_CONFIG["biobert"],
   pretrained_model_name |-> PRETRAINED_MODEL_NAME["biobert"],
   checkpoint |-> NGC_CHECKPOINT["biobert"],
   hidden_size |-> HiddenSizeOf(PRETRAINED_MODEL_NAME["biobert"]),
   trained_by |-> 0]

\* get_pretrained_lm_model(config=, pretrained_model_name=, checkpoint=), each
\* value looked up in its dictionary under the model type
PretrainedLm(m) ==
  [kind |-> "lm",
   config |-> NGC_CONFIG[m],
   pretrained_model_name |-> PRETRAINED_MODEL_NAME[m],
   checkpoint |-> NGC_CHECKPOINT[m],
   hidden_size |-> HiddenSizeOf(PRETRAINED_MODEL_NAME[m]),
   trained_by |-> 0]

\* Lm whose shipped cell does not print lm.num_weights
LmNoSanityCheck ==
  /\ Running("lm")
  /\ IF ~ReadsDefined THEN Stop("NameError", ns, objs)
     ELSE IF ~filled THEN Go(("lm" :> None) @@ ns, objs)
     ELSE \/ Stop(FrameworkError, ns, objs)
          \/ Go(("lm" :> Obj(NewId)) @@ ns,
                Append(objs, PretrainedLm(MODEL_TYPE)))
  /\ UNCHANGED inf

Lm ==
  /\ Running("lm")
  /\ IF ~ReadsDefined THEN Stop("NameError", ns, objs)
     ELSE IF ~filled
       THEN IF MODEL_TYPE \notin DOMAIN PRETRAINED_MODEL_NAME
              THEN Stop("KeyError", ("lm" :> None) @@ ns, objs)
              ELSE Stop("AttributeError", ("lm" :> None) @@ ns, objs)
     ELSE IF \/ MODEL_TYPE \notin DOMAIN NGC_CONFIG
             \/ MODEL_TYPE \notin DOMAIN PRETRAINED_MODEL_NAME
             \/ MODEL_TYPE \notin DOMAIN NGC_CHECKPOINT
       THEN Stop("KeyError", ns, objs)
     ELSE \/ Stop(FrameworkError, ns, objs)
          \/ Go(("lm" :> Obj(NewId)) @@ ns,
                Append(objs, PretrainedLm(MODEL_TYPE)))
  /\ UNCHANGED inf

\* TokenClassifier sized for a BERT base model whatever it is handed
TokenClassifierBase(hidden) ==
  [kind |-> "classifier", cls |-> "TokenClassifier", hidden_size |-> 768,
   num_classes |-> NUM_CLASSES, num_layers |-> 1, dropout |-> "0.1",
   trained_by |-> 0]

\* TokenClassifier(hidden_size=lm_hidden_size, num_classes=NUM_CLASSES,
\* num_layers=1, dropout=0.1)
TokenClassifier(hidden) ==
  [kind |-> "classifier", cls |-> "TokenClassifier", hidden_size |-> hidden,
   num_classes |-> NUM_CLASSES, num_layers |-> 1, dropout |-> "0.1",
   trained_by |-> 0]

Classifier ==
  /\ Running("classifier")
  /\ IF ~ReadsDefined THEN Stop("NameError", ns, objs)
     ELSE IF IsNone(ns["lm"]) THEN Stop("AttributeError", ns, objs)
     ELSE LET ns1 == ("lm_hidden_size" :> Const) @@ ns
          IN IF ~filled
               THEN Stop("AttributeError", ("classifier" :> None) @@ ns1, objs)
               ELSE \/ Stop(FrameworkError, ns1, objs)
                    \/ Go(("classifier" :> Obj(NewId)) @@ ns1,
                          Append(objs,
                            TokenClassifier(objs[ns["lm"].id].hidden_size)))
  /\ UNCHANGED inf

Loss ==
  /\ Running("loss")
  /\ IF ~ReadsDefined THEN Stop("NameError", ns, objs)
     ELSE IF ~filled THEN Go(("loss" :> None) @@ ns, objs)
     ELSE \/ Stop(FrameworkError, ns, objs)
          \/ Go(("loss" :> Obj(NewId)) @@ ns,
                Append(objs, [kind |-> "loss", cls |-> "CrossEntropyLossNM",
                              logits_ndim |-> 3]))
  /\ UNCHANGED inf

(***************************************************************************)
(* Graph wiring.  names = <<data, embeddings, logits, loss>>; calling a    *)
(* name bound to None raises TypeError, and what was assigned before the   *)
(* raise stays assigned.                                                   *)
(***************************************************************************)
\* Wire whose loss takes its labels from the training data layer
WireTrainLabels(names, dlv, lmv, clsv, lossv, withLoss) ==
  LET dl == dlv.id
      b1 == names[1] :> PortT(dl, "all")
      emb == Embeddings(lmv.id, PortT(dl, "input_ids"),
                        PortT(dl, "input_type_ids"), PortT(dl, "input_mask"))
      b2 == (names[2] :> emb) @@ b1
      lg == Logits(clsv.id, emb)
      b3 == (names[3] :> lg) @@ b2
      ls == CallT(lossv.id, "loss",
                  {<<"logits", lg>>,
                   <<"labels", PortT(ns["dl_train"].id, "labels")>>,
                   <<"loss_mask", PortT(ns["dl_train"].id, "loss_mask")>>})
  IN IF IsNone(dlv) THEN [raised |-> TRUE, binds |-> <<>>]
     ELSE IF IsNone(lmv) THEN [raised |-> TRUE, binds |-> b1]
     ELSE IF IsNone(clsv) THEN [raised |-> TRUE, binds |-> b2]
     ELSE IF ~withLoss THEN [raised |-> FALSE, binds |-> b3]
     ELSE IF IsNone(lossv) THEN [raised |-> TRUE, binds |-> b3]
     ELSE [raised |-> FALSE, binds |-> (names[4] :> ls) @@ b3]

Wire(names, dlv, lmv, clsv, lossv, withLoss) ==
  LET dl == dlv.id
      b1 == names[1] :> PortT(dl, "all")
      emb == Embeddings(lmv.id, PortT(dl, "input_ids"),
                        PortT(dl, "input_type_ids"), PortT(dl, "input_mask"))
      b2 == (names[2] :> emb) @@ b1
      lg == Logits(clsv.id, emb)
      b3 == (names[3] :> lg) @@ b2
      ls == CallT(lossv.id, "loss",
                  {<<"logits", lg>>, <<"labels", PortT(dl, "labels")>>,
                   <<"loss_mask", PortT(dl, "loss_mask")>>})
  IN IF IsNone(dlv) THEN [raised |-> TRUE, binds |-> <<>>]
     ELSE IF IsNone(lmv) THEN [raised |-> TRUE, binds |-> b1]
     ELSE IF IsNone(clsv) THEN [raised |-> TRUE, binds |-> b2]
     ELSE IF ~withLoss THEN [raised |-> FALSE, binds |-> b3]
     ELSE IF IsNone(lossv) THEN [raised |-> TRUE, binds |-> b3]
     ELSE [raised |-> FALSE, binds |-> (names[4] :> ls) @@ b3]

TrainNames == <<"train_data", "train_embeddings", "train_logits", "train_loss">>
ValNames == <<"val_data", "val_embeddings", "val_logits", "val_loss">>
TestNames == <<"test_data", "test_embeddings", "test_logits">>

TrainGraph ==
  /\ Running("train_graph")
  /\ IF ~ReadsDefined THEN Stop("NameError", ns, objs)
     ELSE LET w == Wire(TrainNames, ns["dl_train"], ns["lm"],
                        ns["classifier"], ns["loss"], TRUE)
          IN IF w.raised THEN Stop("TypeError", w.binds @@ ns, objs)
                         ELSE Go(w.binds @@ ns, objs)
  /\ UNCHANGED inf

ValGraph ==
  /\ Running("val_graph")
  /\ IF ~ReadsDefined THEN Stop("NameError", ns, objs)
     ELSE IF ~filled
       THEN Go(Bind({ValNames[k] : k \in 1..4}, None) @@ ns, objs)
     ELSE LET w == Wire(ValNames, ns["dl_val"], ns["lm"],
                        ns["classifier"], ns["loss"], TRUE)
          IN IF w.raised THEN Stop("TypeError", w.binds @@ ns, objs)
                         ELSE Go(w.binds @@ ns, objs)
  /\ UNCHANGED inf

\* TestGraph wired to a language model instantiated anew for the test
TestGraphFreshLm ==
  /\ Running("test_graph")
  /\ IF ~ReadsDefined THEN Stop("NameError", ns, objs)
     ELSE LET w == Wire(TestNames, ns["dl_test"], Obj(NewId),
                        ns["classifier"], None, FALSE)
          IN IF w.raised THEN Stop("TypeError", w.binds @@ ns, objs)
             ELSE Go(w.binds @@ ns,
                     Append(objs, [objs[ns["lm"].id] EXCEPT !.trained_by = 0]))
  /\ UNCHANGED inf

TestGraph ==
  /\ Running("test_graph")
  /\ IF ~ReadsDefined THEN Stop("NameError", ns, objs)
     ELSE LET w == Wire(TestNames, ns["dl_test"], ns["lm"],
                        ns["classifier"], None, FALSE)
          IN IF w.raised THEN Stop("TypeError", w.binds @@ ns, objs)
                         ELSE Go(w.binds @@ ns, objs)
  /\ UNCHANGED inf

(***************************************************************************)
(* Training.                                                               *)
(***************************************************************************)
\* steps_per_epoch rounded up to count a last partial batch
steps_per_epochCeil(n) == (n + BATCH_SIZE - 1) \div BATCH_SIZE

\* steps_per_epoch = len(dl_train) // BATCH_SIZE
steps_per_epoch(n) == n \div BATCH_SIZE

\* get_lr_policy("WarmupAnnealing", total_steps=..., warmup_ratio=...)
get_lr_policy(name, total) ==
  [kind |-> "lr_policy", policy |-> name, total_steps |-> total]

Lr ==
  /\ Running("lr")
  /\ IF ~ReadsDefined THEN Stop("NameError", ns, objs)
     ELSE LET spe == steps_per_epoch(objs[ns["dl_train"].id].len)
          IN Go(("lr_policy_fn" :>
                   get_lr_policy("WarmupAnnealing", NUM_EPOCHS * spe)) @@
                ("steps_per_epoch" :> IntVal(spe)) @@
                Bind({"NUM_EPOCHS", "OPTIMIZER", "LEARNING_RATE",
                      "WARMUP_RATIO", "WEIGHT_DECAY"}, Const) @@ ns, objs)
  /\ UNCHANGED inf

\* Callback that acts at every step
CallbackEveryStep(cls) ==
  [kind |-> "callback", cls |-> cls, step_freq |-> 1, fired |-> {}]

\* a logger or checkpoint callback made with step_freq=100; fired: the steps
\* of the latest training run at which it acted
Callback(cls) ==
  [kind |-> "callback", cls |-> cls, step_freq |-> 100, fired |-> {}]

\* EvaluatorCallback left at an evaluation every step
EvaluatorCallbackEveryStep(tensors, step) ==
  [kind |-> "callback", cls |-> "EvaluatorCallback", eval_tensors |-> tensors,
   eval_step |-> 1, fired |-> {}]

\* EvaluatorCallback(eval_tensors=[...], ..., eval_step=steps_per_epoch)
EvaluatorCallback(tensors, step) ==
  [kind |-> "callback", cls |-> "EvaluatorCallback", eval_tensors |-> tensors,
   eval_step |-> step, fired |-> {}]

Callbacks ==
  /\ Running("callbacks")
  /\ LET ns1 == IF filled
                  THEN ("train_callback" :> Obj(NewId)) @@
                       ("tensorboard_callback" :> Obj(NewId + 1)) @@ ns
                  ELSE Bind({"train_callback", "tensorboard_callback"}, None) @@ ns
         objs1 == IF filled
                    THEN objs \o <<Callback("SimpleLogger"),
                                   Callback("TensorboardLogger")>>
                    ELSE objs
         ev == EvaluatorCallback(
                 <<ns["val_logits"], PortT(ns["val_data"].module, "labels"),
                   PortT(ns["val_data"].module, "subtokens_mask")>>,
                 ns["steps_per_epoch"].val)
         ns2 == ("eval_callback" :> Obj(Len(objs1) + 1)) @@ ns1
         objs2 == Append(objs1, ev)
     IN IF ~ReadsDefined THEN Stop("NameError", ns, objs)
        ELSE IF IsNone(ns["val_data"]) THEN Stop("AttributeError", ns1, objs1)
        ELSE IF ~filled THEN Go(("ckpt_callback" :> None) @@ ns2, objs2)
        ELSE \/ /\ ev.eval_step <= 0
                /\ Stop("ValueError", ns1, objs1)
             \/ Go(("ckpt_callback" :> Obj(Len(objs2) + 1)) @@ ns2,
                   Append(objs2, Callback("CheckpointCallback")))
  /\ UNCHANGED inf

\* the trainable modules a tensor is computed by
Trainables(t) == {m \in ModulesOf(t) : objs[m].kind \in {"lm", "classifier"}}

\* the steps after step from, up to step to, at which a callback of
\* frequency freq acts
Fires(freq, from, to) == {s \in (from + 1)..to : s % freq = 0}

CallbackNames ==
  {"train_callback", "tensorboard_callback", "eval_callback", "ckpt_callback"}

\* the batches one epoch over n examples can have: the trainer's loader
\* drops or keeps a last partial batch
BatchesPerEpoch(n) ==
  {n \div BATCH_SIZE, (n + BATCH_SIZE - 1) \div BATCH_SIZE}

\* nemo.core.NeuralModuleFactory.reset_trainer(nf): the trainer starts anew
reset_trainer(o) ==
  [o EXCEPT ![ns["nf"].id].resets = @ + 1, ![ns["nf"].id].trainer_step = 0]

\* nf.train(...) to its return: steps steps on from where the trainer stands,
\* optimising the modules of train_loss, each callback acting at its steps
train(o, steps) ==
  LET nf == ns["nf"].id
      start == o[nf].trainer_step
      cbIds == {ns[c].id : c \in CallbackNames}
  IN [m \in DOMAIN o |->
        IF m = nf
          THEN [o[m] EXCEPT !.train_runs = @ + 1, !.run_start = start,
                            !.run_steps = steps,
                            !.trainer_step = start + steps]
        ELSE IF m \in Trainables(ns["train_loss"])
          THEN [o[m] EXCEPT !.trained_by = @ + 1]
        ELSE IF m \in cbIds
          THEN [o[m] EXCEPT !.fired =
                  Fires(IF o[m].cls = "EvaluatorCallback"
                          THEN o[m].eval_step ELSE o[m].step_freq,
                        start, start + steps)]
        ELSE o[m]]

\* the training cell without its first statement
TrainCellNoReset(o, steps) == train(o, steps)

\* the training cell: reset_trainer(nf), then nf.train(...)
TrainCell(o, steps) == train(reset_trainer(o), steps)

Train ==
  /\ Running("train")
  /\ IF ~ReadsDefined THEN Stop("NameError", ns, objs)
     ELSE IF IsNone(ns["train_loss"]) \/ \E c \in CallbackNames : IsNone(ns[c])
       THEN Stop("TypeError", ns, reset_trainer(objs))
     ELSE IF objs[ns["eval_callback"].id].eval_step = 0
       THEN Stop("ZeroDivisionError", ns, reset_trainer(objs))
     ELSE \/ Stop(FrameworkError, ns, reset_trainer(objs))
          \/ \E b \in BatchesPerEpoch(objs[ns["dl_train"].id].len) :
               Go(ns, TrainCell(objs, NUM_EPOCHS * b))
  /\ UNCHANGED inf

\* the training cell executed again once the notebook has run to its end
TrainAgain ==
  /\ notebook = "ner"
  /\ status = "done"
  /\ objs[ns["nf"].id].train_runs < MaxTrainRuns
  /\ \/ /\ status' = "error"
        /\ err' = [cell |-> "train", kind |-> FrameworkError]
        /\ objs' = reset_trainer(objs)
     \/ /\ \E b \in BatchesPerEpoch(objs[ns["dl_train"].id].len) :
             objs' = TrainCell(objs, NUM_EPOCHS * b)
        /\ UNCHANGED <<status, err>>
  /\ UNCHANGED <<notebook, filled, MODEL_TYPE, pc, ns>>
  /\ UNCHANGED inf

(***************************************************************************)
(* Inference data: the test file, the sampled queries and the features the *)
(* inference data layer builds from them.                                  *)
(***************************************************************************)
\* rows of text_test.txt, one sentence each: one and several words, words of
\* one and several pieces, blanks before, after and between the words, and a
\* row of blanks only
Sentences ==
  { <<"a">>, <<"b">>, <<"a", "b">>,
    <<"a", " ", "b">>, <<"b", " ", "a">>,
    <<" ", "a", " ">>, <<"a", " ", " ", "b">>,
    <<"a", "b", " ", "a">>, <<"a", " ", "b", "a">>,
    <<" ">> }
TestFiles == UNION {[1..n -> Sentences] : n \in 0..MaxRows}

ReadTest ==
  /\ Running("read_test")
  /\ \/ /\ ~ReadsDefined
        /\ Stop("NameError", ns, objs)
        /\ UNCHANGED df_test
     \/ /\ ReadsDefined
        /\ Stop(FrameworkError, ns, objs)
        /\ UNCHANGED df_test
     \/ /\ ReadsDefined
        /\ df_test' \in TestFiles
        /\ Go(("df_test" :> Data) @@ ns, objs)
  /\ UNCHANGED <<queries, test_tokens, infer_out, logits, subtokens_mask,
                 preds, printed>>

\* the ways df.sample(n) can draw n rows without replacement, in drawn order
Draws(n, population) ==
  {idx \in [1..n -> 1..population] :
     \A a, b \in 1..n : a # b => idx[a] # idx[b]}

\* a sample that takes the first rows, as many as there are
sampleHead(df, n) == {SubSeq(df, 1, IF Len(df) < n THEN Len(df) ELSE n)}

\* the frames df.sample(n) can return; none when df has fewer than n rows
\* (pandas raises ValueError: the sample is drawn without replacement)
sample(df, n) ==
  IF Len(df) < n THEN {}
  ELSE {[k \in 1..n |-> df[idx[k]]] : idx \in Draws(n, Len(df))}

Sample ==
  /\ Running("sample")
  /\ \/ /\ ~ReadsDefined
        /\ Stop("NameError", ns, objs)
        /\ UNCHANGED <<df_test, queries>>
     \/ /\ ReadsDefined
        /\ sample(df_test, SampleSize) = {}
        /\ Stop("ValueError", ns, objs)
        /\ UNCHANGED <<df_test, queries>>
     \/ /\ ReadsDefined
        /\ \E drawn \in sample(df_test, SampleSize) :
             /\ df_test' = drawn
             /\ queries' = drawn
        /\ Go(("queries" :> Data) @@ ns, objs)
  /\ UNCHANGED <<test_tokens, infer_out, logits, subtokens_mask, preds, printed>>

\* the tokenizer splits a word into at least one piece, here one per character
PieceCount(word) == Len(word)

Special(k) == [kind |-> k, word |-> 0]

\* the first piece of word j, then its continuation pieces
WordPieces(words, j) ==
  [k \in 1..PieceCount(words[j]) |->
     [kind |-> IF k = 1 THEN "first" ELSE "cont", word |-> j]]

RECURSIVE AllPieces(_, _)
AllPieces(words, j) ==
  IF j > Len(words) THEN <<>>
  ELSE WordPieces(words, j) \o AllPieces(words, j + 1)

TruncSides == {"head", "tail"}

\* a sequence longer than max_seq_length is truncated: "head" keeps its first
\* positions, "tail" keeps the start token and its last positions
Truncate(toks, side) ==
  IF Len(toks) <= MAX_SEQ_LEN THEN toks
  ELSE IF side = "head" THEN SubSeq(toks, 1, MAX_SEQ_LEN)
  ELSE <<toks[1]>> \o SubSeq(toks, Len(toks) - MAX_SEQ_LEN + 2, Len(toks))

\* a shorter one is padded to max_seq_length
Pad(toks) == toks \o [k \in 1..(MAX_SEQ_LEN - Len(toks)) |-> Special("pad")]

\* the positions of one query: [CLS], the pieces of its words, [SEP], padding
Features(query, side) ==
  LET words == split(strip(query))
  IN Pad(Truncate(<<Special("cls")>> \o AllPieces(words, 1) \o <<Special("sep")>>,
                  side))

\* subtokens_mask: 1 at the first piece of a word, 0 elsewhere
MaskOf(toks) == [p \in 1..Len(toks) |-> IF toks[p].kind = "first" THEN 1 ELSE 0]

DlTest ==
  /\ Running("dl_test")
  /\ \/ /\ ~ReadsDefined
        /\ Stop("NameError", ns, objs)
        /\ UNCHANGED test_tokens
     \/ /\ ReadsDefined
        /\ Stop(FrameworkError, ns, objs)
        /\ UNCHANGED test_tokens
     \/ /\ ReadsDefined
        /\ \E side \in TruncSides :
             test_tokens' = [i \in 1..Len(queries) |-> Features(queries[i], side)]
        /\ Go(("dl_test" :> Obj(NewId)) @@ ns,
              Append(objs,
                [kind |-> "datalayer",
                 cls |-> "BertTokenClassificationInferDataLayer",
                 text_file |-> "queries", label_file |-> "none",
                 tokenizer |-> ns["tokenizer"].id,
                 max_seq_length |-> MAX_SEQ_LEN, shuffle |-> FALSE,
                 batch_size |-> 1, use_cache |-> FALSE]))
  /\ UNCHANGED <<df_test, queries, infer_out, logits, subtokens_mask, preds,
                 printed>>

(***************************************************************************)
(* nf.infer: the test graph evaluated batch by batch.  What the network    *)
(* computes is not known: net is any assignment of a favoured class to     *)
(* each position, the same network for every query of the run.             *)
(***************************************************************************)
RECURSIVE Batches(_, _)
Batches(rows, size) ==
  IF rows = <<>> THEN <<>>
  ELSE IF Len(rows) <= size THEN <<rows>>
  ELSE <<SubSeq(rows, 1, size)>> \o Batches(SubSeq(rows, size + 1, Len(rows)), size)

\* the logits of one query: one score per class at each position
LogitsRow(net, numClasses) ==
  [p \in 1..MAX_SEQ_LEN |->
     [c \in 0..(numClasses - 1) |-> IF c = net[p] THEN 1 ELSE 0]]

Infer ==
  /\ Running("infer")
  /\ \/ /\ ~ReadsDefined
        /\ Stop("NameError", ns, objs)
        /\ UNCHANGED infer_out
     \/ /\ ReadsDefined
        /\ Stop(FrameworkError, ns, objs)
        /\ UNCHANGED infer_out
     \/ /\ ReadsDefined
        /\ LET numClasses == objs[ns["test_logits"].module].num_classes
               size == objs[ns["test_data"].module].batch_size
           IN \E net \in [1..MAX_SEQ_LEN -> 0..(numClasses - 1)] :
                infer_out' =
                  [logits |-> Batches([i \in 1..Len(test_tokens) |->
                                         LogitsRow(net, numClasses)], size),
                   mask |-> Batches([i \in 1..Len(test_tokens) |->
                                       MaskOf(test_tokens[i])], size)]
        /\ Go(("test_logits_tensors" :> Data) @@ ns, objs)
  /\ UNCHANGED <<df_test, queries, test_tokens, logits, subtokens_mask, preds,
                 printed>>

RECURSIVE concatenate(_)
\* np.concatenate over the list of batches
concatenate(lists) ==
  IF lists = <<>> THEN <<>> ELSE Head(lists) \o concatenate(Tail(lists))

\* argmax counting the classes from 1
argmaxOneBased(scores) ==
  1 + (CHOOSE c \in DOMAIN scores :
         /\ \A d \in DOMAIN scores : scores[d] <= scores[c]
         /\ \A d \in DOMAIN scores : d < c => scores[d] < scores[c])

\* np.argmax: the first index that holds the largest score
argmax(scores) ==
  CHOOSE c \in DOMAIN scores :
    /\ \A d \in DOMAIN scores : scores[d] <= scores[c]
    /\ \A d \in DOMAIN scores : d < c => scores[d] < scores[c]

Gather ==
  /\ Running("gather")
  /\ LET ns1 == Bind({"concatenate", "add_brackets"}, Const) @@ ns
         lg == concatenate(infer_out.logits)
     IN \/ /\ ~ReadsDefined
           /\ Stop("NameError", ns, objs)
           /\ UNCHANGED <<logits, subtokens_mask, preds>>
        \/ /\ ReadsDefined
           /\ infer_out.logits = <<>>
           /\ Stop("ValueError", ns1, objs)
           /\ UNCHANGED <<logits, subtokens_mask, preds>>
        \/ /\ ReadsDefined
           /\ infer_out.logits # <<>>
           /\ logits' = lg
           /\ subtokens_mask' = concatenate(infer_out.mask)
           /\ preds' = [i \in 1..Len(lg) |->
                          [p \in 1..Len(lg[i]) |-> argmax(lg[i][p])]]
           /\ Go(Bind({"logits", "subtokens_mask", "preds"}, Data) @@ ns1, objs)
  /\ UNCHANGED <<df_test, queries, test_tokens, infer_out, printed>>

(***************************************************************************)
(* The results loop.  Indices are Python's: j counts from 0, and pred[j]   *)
(* is the (j+1)-st element of the sequence pred.                           *)
(***************************************************************************)
\* MaskSelect that ignores the mask: pred = preds[i]
MaskSelectAll(row, mask) == row

RECURSIVE MaskSelect(_, _)
\* row[mask > 0.5]
MaskSelect(row, mask) ==
  IF row = <<>> THEN <<>>
  ELSE (IF 2 * Head(mask) > 1 THEN <<Head(row)>> ELSE <<>>)
       \o MaskSelect(Tail(row), Tail(mask))

\* Tag without the test against NONE_LABEL
TagAlways(label) == add_brackets(label, TRUE)

\* the label string appended after a word: nothing for NONE_LABEL
Tag(label) == IF label # NONE_LABEL THEN add_brackets(label, TRUE) ELSE <<>>

RECURSIVE WordLoopNoSep(_, _, _, _, _)
\* WordLoop without the `output += ' '` that ends each round
WordLoopNoSep(words, pred, labels_dict, j, output) ==
  IF j >= Len(words) THEN [raised |-> "none", output |-> output]
  ELSE IF j >= Len(pred)
    THEN [raised |-> "IndexError", output |-> output \o words[j + 1]]
  ELSE IF pred[j + 1] \notin DOMAIN labels_dict
    THEN [raised |-> "KeyError", output |-> output \o words[j + 1]]
  ELSE WordLoopNoSep(words, pred, labels_dict, j + 1,
                     output \o words[j + 1] \o
                     (IF labels_dict[pred[j + 1]] # NONE_LABEL
                        THEN add_brackets(labels_dict[pred[j + 1]], TRUE)
                        ELSE <<>>))

RECURSIVE WordLoop(_, _, _, _, _)
\* for j, w in enumerate(words)
WordLoop(words, pred, labels_dict, j, output) ==
  IF j >= Len(words) THEN [raised |-> "none", output |-> output]
  ELSE IF j >= Len(pred)
    THEN [raised |-> "IndexError", output |-> output \o words[j + 1]]
  ELSE IF pred[j + 1] \notin DOMAIN labels_dict
    THEN [raised |-> "KeyError", output |-> output \o words[j + 1]]
  ELSE WordLoop(words, pred, labels_dict, j + 1,
                output \o words[j + 1] \o Tag(labels_dict[pred[j + 1]]) \o <<" ">>)

\* the body of the loop over the queries, up to the Labeled Result it prints
LabelQuery(query, predRow, maskRow, labels_dict) ==
  LET pred == MaskSelect(predRow, maskRow)
      words == split(strip(query))
      r == WordLoop(words, pred, labels_dict, 0, <<>>)
  IN [raised |-> r.raised, result |-> strip(r.output)]

RECURSIVE QueryLoop(_, _, _)
\* for i, query in enumerate(queries): stops at the first query that raises
QueryLoop(i, labels_dict, out) ==
  IF i >= Len(queries) THEN [raised |-> "none", printed |-> out]
  ELSE IF i >= Len(preds) \/ i >= Len(subtokens_mask)
    THEN [raised |-> "IndexError", printed |-> out]
  ELSE LET r == LabelQuery(queries[i + 1], preds[i + 1], subtokens_mask[i + 1],
                           labels_dict)
       IN IF r.raised # "none" THEN [raised |-> r.raised, printed |-> out]
          ELSE QueryLoop(i + 1, labels_dict, Append(out, r.result))

LoopNames == {"i", "query", "pred", "words", "output"}

Postprocess ==
  /\ Running("postprocess")
  /\ LET ns1 == Bind({"blue_separator", "green_separator"}, Const) @@ ns
         ns2 == Bind({"labels_dict"} \cup LoopNames, Data) @@ ns1
         r == QueryLoop(0, LabelIds, <<>>)
     IN \/ /\ ~ReadsDefined
           /\ Stop("NameError", ns, objs)
           /\ UNCHANGED printed
        \/ /\ ReadsDefined
           /\ Stop(FrameworkError, ns1, objs)
           /\ UNCHANGED printed
        \/ /\ ReadsDefined
           /\ printed' = r.printed
           /\ IF r.raised = "none" THEN Go(ns2, objs)
                                   ELSE Stop(r.raised, ns2, objs)
  /\ UNCHANGED <<df_test, queries, test_tokens, infer_out, logits,
                 subtokens_mask, preds>>

(***************************************************************************)
(* The module and graph cells of the exploration notebook.                 *)
(***************************************************************************)
XTokenizer ==
  /\ Running("x_tokenizer")
  /\ IF ~ReadsDefined THEN Stop("NameError", ns, objs)
     ELSE \/ Stop(FrameworkError, ns, objs)
          \/ Go(("tokenizer" :> Obj(NewId)) @@ ns,
                Append(objs, [kind |-> "tokenizer", tokenizer_name |-> "nemobert",
                              pretrained_model_name |-> "bert-base-uncased"]))
  /\ UNCHANGED inf

XShowTokens ==
  /\ Running("x_show_tokens")
  /\ IF ~ReadsDefined THEN Stop("NameError", ns, objs)
     ELSE Go(Bind({"test_sentence", "tokenized", "encoded"}, Data) @@ ns, objs)
  /\ UNCHANGED inf

XDl ==
  /\ Running("x_dl")
  /\ IF ~ReadsDefined THEN Stop("NameError", ns, objs)
     ELSE \/ Stop(FrameworkError, ns, objs)
          \/ Go(("dl" :> Obj(NewId)) @@ ns,
                Append(objs,
                  [kind |-> "datalayer", cls |-> "BertTextClassificationDataLayer",
                   text_file |-> "data/NCBI_tc-3/dev.tsv", label_file |-> "none",
                   tokenizer |-> ns["tokenizer"].id,
                   max_seq_length |-> MAX_SEQ_LEN, shuffle |-> FALSE,
                   batch_size |-> 64, use_cache |-> FALSE]))
  /\ UNCHANGED inf

XLm ==
  /\ Running("x_lm")
  /\ IF ~ReadsDefined THEN Stop("NameError", ns, objs)
     ELSE \/ Stop(FrameworkError, ns, objs)
          \/ Go(("lm" :> Obj(NewId)) @@ ns,
                Append(objs,
                  [kind |-> "lm", config |-> "default",
                   pretrained_model_name |-> "bert-base-uncased",
                   checkpoint |-> "default",
                   hidden_size |-> HiddenSizeOf("bert-base-uncased"),
                   trained_by |-> 0]))
  /\ UNCHANGED inf

XCl ==
  /\ Running("x_cl")
  /\ IF ~ReadsDefined THEN Stop("NameError", ns, objs)
     ELSE \/ Stop(FrameworkError, ns, objs)
          \/ Go(("cl" :> Obj(NewId)) @@ ns,
                Append(objs,
                  [kind |-> "classifier", cls |-> "SequenceClassifier",
                   hidden_size |-> objs[ns["lm"].id].hidden_size,
                   num_classes |-> 3, num_layers |-> 2, dropout |-> "0.0",
                   trained_by |-> 0]))
  /\ UNCHANGED inf

XLf ==
  /\ Running("x_lf")
  /\ IF ~ReadsDefined THEN Stop("NameError", ns, objs)
     ELSE \/ Stop(FrameworkError, ns, objs)
          \/ Go(("lf" :> Obj(NewId)) @@ ns,
                Append(objs, [kind |-> "loss", cls |-> "CrossEntropyLossNM",
                              logits_ndim |-> 2]))
  /\ UNCHANGED inf

\* input_data, token_types, attn_mask, labels = dl()
XData ==
  /\ Running("x_data")
  /\ IF ~ReadsDefined THEN Stop("NameError", ns, objs)
     ELSE LET dl == ns["dl"].id
          IN Go(("input_data" :> PortT(dl, "input_ids")) @@
                ("token_types" :> PortT(dl, "input_type_ids")) @@
                ("attn_mask" :> PortT(dl, "input_mask")) @@
                ("labels" :> PortT(dl, "labels")) @@ ns, objs)
  /\ UNCHANGED inf

XEmbeddings ==
  /\ Running("x_embeddings")
  /\ IF ~ReadsDefined THEN Stop("NameError", ns, objs)
     ELSE Go(("embeddings" :>
                Embeddings(ns["lm"].id, ns["input_data"], ns["token_types"],
                           ns["attn_mask"])) @@ ns, objs)
  /\ UNCHANGED inf

XLogitsLoss ==
  /\ Running("x_logits_loss")
  /\ IF ~ReadsDefined THEN Stop("NameError", ns, objs)
     ELSE LET lg == Logits(ns["cl"].id, ns["embeddings"])
          IN Go(("loss" :> CallT(ns["lf"].id, "loss",
                               {<<"logits", lg>>, <<"labels", ns["labels"]>>})) @@
                ("logits" :> lg) @@ ns, objs)
  /\ UNCHANGED inf

Next ==
  \/ Imports \/ Display \/ Params \/ Dicts \/ Factory
  \/ TokDlTrain \/ DlVal \/ Lm \/ Classifier \/ Loss
  \/ TrainGraph \/ ValGraph \/ Lr \/ Callbacks \/ Train \/ TrainAgain
  \/ ReadTest \/ Sample \/ DlTest \/ TestGraph \/ Infer \/ Gather \/ Postprocess
  \/ XTokenizer \/ XShowTokens \/ XDl \/ XLm \/ XCl \/ XLf
  \/ XData \/ XEmbeddings \/ XLogitsLoss

Spec == Init /\ [][Next]_vars

(***************************************************************************)
(* Reading a labeled result back.                                          *)
(***************************************************************************)
RECURSIVE AfterClose(_)
\* what follows the first "]"
AfterClose(s) ==
  IF s = <<>> THEN <<>>
  ELSE IF Head(s) = "]" THEN Tail(s) ELSE AfterClose(Tail(s))

RECURSIVE DeleteTags(_)
\* the string with every bracketed tag taken out
DeleteTags(s) ==
  IF s = <<>> THEN <<>>
  ELSE IF Head(s) = "[" THEN DeleteTags(AfterClose(Tail(s)))
  ELSE <<Head(s)>> \o DeleteTags(Tail(s))

IsPrefix(a, b) == Len(a) <= Len(b) /\ SubSeq(b, 1, Len(a)) = a

RECURSIVE Contains(_, _)
Contains(s, sub) ==
  IF Len(s) < Len(sub) THEN FALSE
  ELSE IsPrefix(sub, s) \/ Contains(Tail(s), sub)

WordsOf(k) == split(strip(queries[k]))
PiecesOf(k) == split(printed[k])

\* the position of row k that holds the j-th mask value above 0.5
NthMasked(k, j) ==
  CHOOSE p \in 1..Len(subtokens_mask[k]) :
    /\ 2 * subtokens_mask[k][p] > 1
    /\ Cardinality({q \in 1..(p - 1) : 2 * subtokens_mask[k][q] > 1}) = j - 1

MaskedCount(k) ==
  Cardinality({p \in 1..Len(subtokens_mask[k]) : 2 * subtokens_mask[k][p] > 1})

\* the label a labeled result shows for a word: the bracketed text that
\* follows the word, "O" when nothing follows it
ShownLabel(piece, word) ==
  IF piece = word THEN <<"O">>
  ELSE SubSeq(piece, Len(word) + 2, Len(piece) - 1)

(***************************************************************************)
(* C1: deleting every bracketed tag from a labeled result leaves exactly   *)
(* the whitespace-split words of its query, in their order.                *)
(***************************************************************************)
C1_WordOrderPreserved ==
  \A k \in 1..Len(printed) :
    split(DeleteTags(printed[k])) = WordsOf(k)

\* a result of two different words, one of them tagged
C1_Witness ==
  \E k \in 1..Len(printed) :
    /\ Len(WordsOf(k)) = 2
    /\ WordsOf(k)[1] # WordsOf(k)[2]
    /\ Contains(printed[k], <<"[">>)

(***************************************************************************)
(* C2: in a labeled result word j is followed by "[" label "]" exactly     *)
(* when the label of pred[j] is not "O"; an "O" word is printed bare and   *)
(* "[O]" is never printed.                                                 *)
(***************************************************************************)
C2_OnlyNonOutsideTagged ==
  \A k \in 1..Len(printed) :
    /\ Len(PiecesOf(k)) = Len(WordsOf(k))
    /\ ~Contains(printed[k], <<"[", "O", "]">>)
    /\ \A j \in 1..Len(WordsOf(k)) :
         LET label == LabelIds[preds[k][NthMasked(k, j)]]
             word == WordsOf(k)[j]
             piece == PiecesOf(k)[j]
         IN /\ (piece = word \o <<"[">> \o label \o <<"]">>) <=> (label # <<"O">>)
            /\ (piece = word) <=> (label = <<"O">>)

\* a result with a tagged word and a bare word
C2_Witness ==
  \E k \in 1..Len(printed) :
    /\ Len(WordsOf(k)) = 2
    /\ \E j \in 1..2 : PiecesOf(k)[j] = WordsOf(k)[j]
    /\ \E j \in 1..2 : PiecesOf(k)[j] # WordsOf(k)[j]

(***************************************************************************)
(* C3: the label shown for word j of query k is the class predicted at the *)
(* first piece of that word; what is predicted at other positions is not   *)
(* shown.                                                                  *)
(***************************************************************************)
C3_AlignedToFirstPiece ==
  \A k \in 1..Len(printed) :
    /\ Len(PiecesOf(k)) = Len(WordsOf(k))
    /\ \A j \in 1..Len(WordsOf(k)) :
         \E p \in 1..Len(test_tokens[k]) :
           /\ test_tokens[k][p] = [kind |-> "first", word |-> j]
           /\ p = NthMasked(k, j)
           /\ ShownLabel(PiecesOf(k)[j], WordsOf(k)[j]) = LabelIds[preds[k][p]]

\* a printed word of two pieces whose continuation piece was predicted
\* another class than its first piece
C3_Witness ==
  \E k \in 1..Len(printed) :
    \E p \in 1..(Len(test_tokens[k]) - 1) :
      /\ test_tokens[k][p].kind = "first"
      /\ test_tokens[k][p + 1].kind = "cont"
      /\ preds[k][p] # preds[k][p + 1]
      /\ preds[k][p] # preds[k][1]

(***************************************************************************)
(* C4: every query has at least as many mask-selected predictions as it    *)
(* has words, so pred[j] never raises.                                     *)
(***************************************************************************)
C4_OneTagPerWord ==
  /\ \A k \in 1..Len(subtokens_mask) : MaskedCount(k) >= Len(WordsOf(k))
  /\ err.kind # "IndexError"

(***************************************************************************)
(* C10: every predicted class is one of 0, 1, 2, the label vocabulary maps *)
(* each of them to "O", "B" or "I", and the lookup never raises KeyError.  *)
(***************************************************************************)
C10_PredsHaveLabels ==
  /\ \A i \in 1..Len(preds) : \A p \in 1..Len(preds[i]) :
       /\ preds[i][p] \in 0..2
       /\ preds[i][p] \in DOMAIN LabelIds
       /\ LabelIds[preds[i][p]] \in {<<"O">>, <<"B">>, <<"I">>}
  /\ ~(err.cell = "postprocess" /\ err.kind = "KeyError")

\* the loop finished on predictions that use all three classes
C10_Witness ==
  /\ status = "done"
  /\ notebook = "ner"
  /\ \E i \in 1..Len(preds) : {preds[i][p] : p \in 1..Len(preds[i])} = {0, 1, 2}

(***************************************************************************)
(* C5: the five configuration dictionaries have the key set {'biobert',    *)
(* 'biomegatron'}, MODEL_TYPE is one of the two, and no lookup keyed by    *)
(* MODEL_TYPE raises KeyError.                                             *)
(***************************************************************************)
C5_ConfigTotal ==
  /\ DOMAIN PRETRAINED_MODEL_NAME = {"biobert", "biomegatron"}
  /\ DOMAIN DO_LOWER_CASE = {"biobert", "biomegatron"}
  /\ DOMAIN WORK_DIR = {"biobert", "biomegatron"}
  /\ DOMAIN NGC_CHECKPOINT = {"biobert", "biomegatron"}
  /\ DOMAIN NGC_CONFIG = {"biobert", "biomegatron"}
  /\ notebook = "ner" => MODEL_TYPE \in {"biobert", "biomegatron"}
  /\ err.kind # "KeyError"

\* every cell that does a lookup has run, for the second model type
C5_Witness ==
  /\ MODEL_TYPE = "biomegatron"
  /\ {"nf", "tokenizer", "lm"} \subseteq DOMAIN ns
  /\ ~IsNone(ns["lm"])
  /\ objs[ns["lm"].id].config = "/ngc_checkpoints/checkpoints/biomegatron/config.json"

(***************************************************************************)
(* C6: the steps of a top-to-bottom run happen in the order factory,       *)
(* tokenizer, data layer, language model, classifier, loss, graph, train,  *)
(* infer, post-processing; no cell reads a name that is not yet defined;   *)
(* the factory is the first object created; inference has output only     *)
(* after a training run has returned.                                      *)
(***************************************************************************)
Has(n) == n \in DOMAIN ns
Trained == Has("nf") /\ objs[ns["nf"].id].train_runs >= 1

NerStages ==
  << Has("nf"), Has("tokenizer"), Has("dl_train"), Has("lm"),
     Has("classifier"), Has("loss"), Has("train_loss"), Trained,
     Has("test_logits_tensors"), Has("labels_dict") >>

ExploreStages ==
  << Has("nf"), Has("tokenizer"), Has("dl"), Has("lm"), Has("cl"), Has("lf"),
     Has("input_data"), Has("embeddings"), Has("loss") >>

Stages == IF notebook = "ner" THEN NerStages ELSE ExploreStages

RECURSIVE DataLayersOf(_)
DataLayersOf(t) ==
  IF t.in = {} THEN {t.module} ELSE UNION {DataLayersOf(a[2]) : a \in t.in}

ArgNames(t) == {a[1] : a \in t.in}
Arg(t, name) == (CHOOSE a \in t.in : a[1] = name)[2]
IsPort(t, dl, port) ==
  t.in = {} /\ t.module = dl /\ t.port = port /\ objs[dl].kind = "datalayer"

LmInputsOk(t) ==
  /\ ArgNames(t) = {"input_ids", "token_type_ids", "attention_mask"}
  /\ Cardinality(t.in) = 3
  /\ \E dl \in DOMAIN objs :
       /\ IsPort(Arg(t, "input_ids"), dl, "input_ids")
       /\ IsPort(Arg(t, "token_type_ids"), dl, "input_type_ids")
       /\ IsPort(Arg(t, "attention_mask"), dl, "input_mask")

ClassifierInputsOk(t) ==
  /\ ArgNames(t) = {"hidden_states"}
  /\ Cardinality(t.in) = 1
  /\ objs[Arg(t, "hidden_states").module].kind = "lm"
  /\ Arg(t, "hidden_states").port = "hidden_states"

LossInputsOk(t) ==
  /\ {"logits", "labels"} \subseteq ArgNames(t)
  /\ ArgNames(t) \subseteq {"logits", "labels", "loss_mask"}
  /\ Cardinality(t.in) = Cardinality(ArgNames(t))
  /\ objs[Arg(t, "logits").module].kind = "classifier"
  /\ \A name \in ArgNames(t) \ {"logits"} :
       \A dl \in DataLayersOf(Arg(t, "logits")) : IsPort(Arg(t, name), dl, name)

RECURSIVE ChainFrom(_)
\* t and every tensor t is computed from have the inputs of their kind
ChainFrom(t) ==
  LET k == objs[t.module].kind
  IN /\ k \in {"datalayer", "lm", "classifier", "loss"}
     /\ k = "datalayer" <=> t.in = {}
     /\ k = "lm" => LmInputsOk(t)
     /\ k = "classifier" => ClassifierInputsOk(t)
     /\ k = "loss" => LossInputsOk(t)
     /\ \A a \in t.in : ChainFrom(a[2])

C7_LinearChains ==
  \A n \in DOMAIN ns : ns[n].kind = "tensor" => ChainFrom(ns[n])

\* the training, validation and test graphs are all wired
C7_Witness ==
  /\ {"train_loss", "val_loss", "test_logits"} \subseteq DOMAIN ns
  /\ ns["val_loss"].kind = "tensor"

(***************************************************************************)
(* C8: the training, validation and test graphs run the same language      *)
(* model instance and the same classifier instance (training and           *)
(* validation the same loss instance) on different data layers, and the    *)
(* modules inference runs are the ones training optimised.                 *)
(***************************************************************************)
TensorNamed(n) == Has(n) /\ ns[n].kind = "tensor"
ModulesNamed(names) == {ns[n].module : n \in {m \in names : TensorNamed(m)}}
InstancesOf(kind) == {id \in DOMAIN objs : objs[id].kind = kind}

C8_SharedModules ==
  notebook = "ner" =>
    /\ Cardinality(ModulesNamed({"train_embeddings", "val_embeddings",
                                 "test_embeddings"})) <= 1
    /\ Cardinality(ModulesNamed({"train_logits", "val_logits",
                                 "test_logits"})) <= 1
    /\ Cardinality(ModulesNamed({"train_loss", "val_loss"})) <= 1
    /\ Cardinality(InstancesOf("lm")) <= 1
    /\ Cardinality(InstancesOf("classifier")) <= 1
    /\ \A a, b \in {"train_data", "val_data", "test_data"} :
         (a # b /\ TensorNamed(a) /\ TensorNamed(b))
           => ns[a].module # ns[b].module
    /\ TensorNamed("test_logits") =>
         Trainables(ns["test_logits"]) = Trainables(ns["train_loss"])
    /\ infer_out.logits # <<>> =>
         \A m \in Trainables(ns["test_logits"]) : objs[m].trained_by >= 1

\* inference has run on the test graph, with the validation graph wired
C8_Witness ==
  /\ infer_out.logits # <<>>
  /\ TensorNamed("val_loss")
  /\ TensorNamed("test_logits")

(***************************************************************************)
(* C9: once a cell has raised, the run stays stopped at that cell with     *)
(* that error: no later cell runs, nothing is retried or resumed.          *)
(***************************************************************************)
C9_ErrorsStop ==
  [][/\ status = "error" => vars' = vars
     /\ (status = "running" /\ status' = "error")
          => (pc' = pc /\ err'.cell = CurCell /\ err'.kind # "none")
     /\ (status = "running" /\ pc' # pc) => (pc' = pc + 1 /\ err' = NoErr)]_vars

\* training raised and the run stopped at the training cell
C9_Witness ==
  /\ status = "error"
  /\ err.cell = "train"
  /\ pc < Len(Cells)

(***************************************************************************)
(* C11: the tokenizer and the language model are built for the same        *)
(* pretrained model: 'bert-base-uncased' in the exploration notebook; in   *)
(* the NER notebook the tokenizer's name and casing flag, the language     *)
(* model's name, config and checkpoint and the factory's log directory are *)
(* all the entries of one model type, the value of MODEL_TYPE.             *)
(***************************************************************************)
C11_SamePretrainedModel ==
  /\ \A t \in InstancesOf("tokenizer"), l \in InstancesOf("lm") :
       objs[t].pretrained_model_name = objs[l].pretrained_model_name
  /\ notebook = "explore" =>
       \A o \in InstancesOf("tokenizer") \cup InstancesOf("lm") :
         objs[o].pretrained_model_name = "bert-base-uncased"
  /\ notebook = "ner" =>
       \E m \in ModelTypes :
         /\ m = MODEL_TYPE
         /\ \A t \in InstancesOf("tokenizer") :
              /\ objs[t].pretrained_model_name = PRETRAINED_MODEL_NAME[m]
              /\ objs[t].do_lower_case = DO_LOWER_CASE[m]
         /\ \A l \in InstancesOf("lm") :
              /\ objs[l].pretrained_model_name = PRETRAINED_MODEL_NAME[m]
              /\ objs[l].config = NGC_CONFIG[m]
              /\ objs[l].checkpoint = NGC_CHECKPOINT[m]
         /\ \A f \in InstancesOf("factory") : objs[f].log_dir = WORK_DIR[m]

\* a run for the second model type has built factory, tokenizer and language
\* model and has trained
C11_Witness ==
  /\ notebook = "ner"
  /\ MODEL_TYPE = "biomegatron"
  /\ InstancesOf("tokenizer") # {}
  /\ InstancesOf("lm") # {}
  /\ Trained

(***************************************************************************)
(* C13: for every model type DO_LOWER_CASE is True exactly when            *)
(* PRETRAINED_MODEL_NAME names an uncased model (biomegatron: True,        *)
(* biobert: False), and the NER tokenizer is built with the flag of its    *)
(* model: it lower-cases exactly when its pretrained model is uncased.     *)
(***************************************************************************)
\* the pretrained model names of the notebooks that contain 'uncased'
UncasedNames == {"bert-base-uncased", "megatron-bert-uncased"}

C13_CasingAgrees ==
  /\ \A m \in ModelTypes :
       DO_LOWER_CASE[m] <=> PRETRAINED_MODEL_NAME[m] \in UncasedNames
  /\ DO_LOWER_CASE["biomegatron"] /\ ~DO_LOWER_CASE["biobert"]
  /\ notebook = "ner" =>
       \A t \in InstancesOf("tokenizer") :
         /\ objs[t].do_lower_case = DO_LOWER_CASE[MODEL_TYPE]
         /\ objs[t].do_lower_case <=> objs[t].pretrained_model_name \in UncasedNames

\* the tokenizer of the uncased model has been built, lower-casing
C13_Witness ==
  /\ notebook = "ner"
  /\ Has("tokenizer")
  /\ objs[ns["tokenizer"].id].do_lower_case
  /\ objs[ns["tokenizer"].id].pretrained_model_name = "megatron-bert-uncased"

(***************************************************************************)
(* C14: the data layers of the NER notebook are built with the same        *)
(* tokenizer object and the same max_seq_length; only the training layer   *)
(* shuffles; the test layer reads the in-memory query list with batch size *)
(* 1, the training and validation layers read files with BATCH_SIZE.       *)
(***************************************************************************)
IsLayer(name, d) == Has(name) /\ ns[name] = Obj(d)

C14_DataLayersAlike ==
  notebook = "ner" =>
    \A d \in InstancesOf("datalayer") :
      /\ Has("tokenizer") /\ objs[d].tokenizer = ns["tokenizer"].id
      /\ objs[d].max_seq_length = MAX_SEQ_LEN
      /\ \A e \in InstancesOf("datalayer") :
           /\ objs[e].tokenizer = objs[d].tokenizer
           /\ objs[e].max_seq_length = objs[d].max_seq_length
      /\ IsLayer("dl_train", d) \/ IsLayer("dl_val", d) \/ IsLayer("dl_test", d)
      /\ objs[d].shuffle <=> IsLayer("dl_train", d)
      /\ IsLayer("dl_test", d) =>
           /\ objs[d].cls = "BertTokenClassificationInferDataLayer"
           /\ objs[d].text_file = "queries"
           /\ objs[d].label_file = "none"
           /\ objs[d].batch_size = 1
      /\ ~IsLayer("dl_test", d) =>
           /\ objs[d].cls = "BertTokenClassificationDataLayer"
           /\ objs[d].text_file # "queries"
           /\ objs[d].label_file # "none"
           /\ objs[d].batch_size = BATCH_SIZE
           /\ objs[d].use_cache

\* the training, validation and test data layers all exist
C14_Witness ==
  /\ notebook = "ner"
  /\ {"dl_train", "dl_val", "dl_test"} \subseteq DOMAIN ns
  /\ Cardinality(InstancesOf("datalayer")) = 3

(***************************************************************************)
(* C15: a classifier's hidden_size is the hidden size of the language      *)
(* model whose embeddings it is called on, and its number of classes is 3: *)
(* in the NER notebook NUM_CLASSES, the size of the label vocabulary the   *)
(* post-processing looks predictions up in.                                *)
(***************************************************************************)
RECURSIVE SizedFrom(_)
\* every classifier tensor among t and the tensors t is computed from is the
\* output of a classifier of the hidden size of the module it is called on
SizedFrom(t) ==
  /\ objs[t.module].kind = "classifier" =>
       objs[t.module].hidden_size =
         objs[Arg(t, "hidden_states").module].hidden_size
  /\ \A a \in t.in : SizedFrom(a[2])

C15_ClassifierSized ==
  /\ \A n \in DOMAIN ns : ns[n].kind = "tensor" => SizedFrom(ns[n])
  /\ \A c \in InstancesOf("classifier"), l \in InstancesOf("lm") :
       objs[c].hidden_size = objs[l].hidden_size
  /\ \A c \in InstancesOf("classifier") : objs[c].num_classes = 3
  /\ notebook = "ner" =>
       /\ NUM_CLASSES = 3
       /\ Cardinality(DOMAIN LabelIds) = NUM_CLASSES
       /\ \A c \in InstancesOf("classifier") : objs[c].num_classes = NUM_CLASSES

\* a classifier sized for the larger model is wired after its language model
C15_Witness ==
  /\ notebook = "ner"
  /\ TensorNamed("train_logits")
  /\ objs[ns["train_logits"].module].hidden_size = 1024

C17_WitnessTooFew ==
  /\ status = "error"
  /\ err = [cell |-> "sample", kind |-> "ValueError"]
  /\ Len(df_test) < SampleSize

(***************************************************************************)
(* C19: with the exercise cells as shipped, a run of the NER notebook      *)
(* passes the dl_val cell (dl_val is None) and stops at the language model *)
(* cell with the error raised by reading lm.num_weights of None; no later  *)
(* cell runs: no classifier, no graph, no training, no inference and no    *)
(* post-processing.                                                        *)
(***************************************************************************)
LmPc == CHOOSE i \in 1..Len(NerCells) : NerCells[i] = "lm"

C19_ShippedStopsAtLm ==
  (notebook = "ner" /\ ~filled) =>
    /\ pc <= LmPc
    /\ status # "done"
    /\ pc = LmPc => Has("dl_val") /\ IsNone(ns["dl_val"])
    /\ (status = "error" /\ err.cell = "lm") =>
         /\ err.kind = "AttributeError"
         /\ Has("lm") /\ IsNone(ns["lm"])
    /\ (status = "error" /\ err.cell # "lm") =>
         err.kind \in {"ImportError", FrameworkError}
    /\ \A n \in {"classifier", "loss", "train_loss", "val_logits",
                 "eval_callback", "queries", "test_logits", "labels_dict"} :
         ~Has(n)
    /\ ~Trained
    /\ infer_out.logits = <<>> /\ preds = <<>> /\ printed = <<>>

\* the shipped run has stopped at the language model cell
C19_Witness ==
  /\ notebook = "ner" /\ ~filled
  /\ status = "error"
  /\ err = [cell |-> "lm", kind |-> "AttributeError"]
  /\ Has("dl_val")

(***************************************************************************)
(* C16: steps_per_epoch is the floor of len(dl_train) / BATCH_SIZE:        *)
(* steps_per_epoch * BATCH_SIZE <= len(dl_train) < (steps_per_epoch + 1) * *)
(* BATCH_SIZE; the schedule is made for NUM_EPOCHS * steps_per_epoch       *)
(* steps; and steps_per_epoch is the multi-GPU formula len // (batch_size  *)
(* * batches_per_step * num_gpus) with one batch per step and one GPU.     *)
(***************************************************************************)
C16_FloorSchedule ==
  (notebook = "ner" /\ Has("steps_per_epoch")) =>
    LET n == objs[ns["dl_train"].id].len
        spe == ns["steps_per_epoch"].val
    IN /\ spe * BATCH_SIZE <= n
       /\ n < (spe + 1) * BATCH_SIZE
       /\ Has("lr_policy_fn")
       /\ ns["lr_policy_fn"].total_steps = NUM_EPOCHS * spe
       /\ spe = n \div (objs[ns["dl_train"].id].batch_size * 1 * 1)

\* the schedule has been made for a training set that is not a whole number
\* of batches
C16_Witness ==
  /\ notebook = "ner"
  /\ Has("lr_policy_fn")
  /\ objs[ns["dl_train"].id].len % BATCH_SIZE # 0
  /\ ns["steps_per_epoch"].val * BATCH_SIZE < objs[ns["dl_train"].id].len

\* C16, a training set of whole batches: 25 steps per epoch, 100 in all
C16_WitnessWholeBatches ==
  /\ notebook = "ner"
  /\ Has("lr_policy_fn")
  /\ ns["steps_per_epoch"].val = 25
  /\ ns["lr_policy_fn"].total_steps = 100

(***************************************************************************)
(* C12: the training logger, TensorBoard logger and checkpoint callbacks   *)
(* nf.train receives are callback objects made with step frequency 100,    *)
(* and in a training run each of them acts at every 100th step and at no   *)
(* other step.                                                             *)
(***************************************************************************)
StepCallbackNames == {"train_callback", "tensorboard_callback", "ckpt_callback"}
\* the steps of the latest training run
StepsRun == objs[ns["nf"].id].run_steps

C20_ResetBeforeTrain ==
  [][(Has("nf") /\ objs'[ns["nf"].id].train_runs > objs[ns["nf"].id].train_runs)
       => /\ objs'[ns["nf"].id].train_runs = objs[ns["nf"].id].train_runs + 1
          /\ objs'[ns["nf"].id].resets = objs[ns["nf"].id].resets + 1
          /\ objs'[ns["nf"].id].run_start = 0
          /\ objs'[ns["nf"].id].resets >= objs'[ns["nf"].id].train_runs]_vars

\* the training cell has been executed again after a whole run
C20_Witness ==
  /\ notebook = "ner"
  /\ status = "done"
  /\ objs[ns["nf"].id].train_runs >= 2
  /\ objs[ns["nf"].id].resets >= 2

====
